---------------------------- MODULE Spec2Model ----------------------------
(***************************************************************************)
(* A model of the MongoDB time-series benchmark scripts.                   *)
(*                                                                         *)
(*   src/unnamed/part_000, lines 1-307 : the multi-trial orchestrator      *)
(*   src/main.ts                       : the single-trial orchestrator     *)
(*                                                                         *)
(* Five state machines share the module: the multi-trial run(), the        *)
(* single-trial run(), runMultipleTests on its own, calculateStats on its  *)
(* own and generateData on its own.  Each has its own Init and Next; the   *)
(* variables of the machines a specification does not run stay put.        *)
(*                                                                         *)
(* The database engine is the external collaborator.  It is modelled by    *)
(* what the scripts can observe of it: a regular collection is a set of    *)
(* documents, the time-series collection is a named slot that exists or    *)
(* not, carries the options it was created with, and counts the instances  *)
(* created under its name.  Every call to the engine may fail.             *)
(***************************************************************************)
EXTENDS Integers, Sequences, FiniteSets, TLC

VARIABLES
    \* ---- the orchestrators (run) ----
    pc,              \* the await the run is suspended at
    sizeIdx,         \* index into dataSizes of the `size` of the for loop
    trial,           \* i of runMultipleTests (also results.length)
    general,         \* documents of testDb.generalCollection
    ts,              \* the slot testDb.timeSeriesCollection
    handle,          \* the Collection objects held by the locals of run
    finalData,       \* the local finalData (multi) / data (single)
    measured,        \* how many durations the measure* functions returned
    rejection,       \* <<>>, or <<the error run()'s promise rejected with>>
    life,            \* host and client lifecycle calls, in order
    callsAfterClose, \* database calls issued after client.close()
    swallowed,       \* errors eaten by .catch(() => { })
    stderr,          \* what console.error wrote
    exitStatus,      \* <<>> while the process runs, then <<its exit status>>
    \* ---- runMultipleTests on its own ----
    rpc,             \* where runMultipleTests is
    runs,            \* its argument runs
    ri,              \* its loop variable i
    rresults,        \* its local results
    calls,           \* the invocations of testFunction so far, in order
    stdout,          \* what it wrote to standard output
    \* ---- calculateStats on its own ----
    values,          \* the array passed to calculateStats
    stats,           \* <<>>, or <<the Stats it returned>>
    \* ---- generateData on its own ----
    gpc,             \* where generateData is
    count,           \* its argument count
    clock,           \* Date.now(), in milliseconds since the call began
    records          \* the records made so far, in index order

orchVars == <<pc, sizeIdx, trial, general, ts, handle, finalData, measured,
              rejection, life,
              callsAfterClose, swallowed, stderr, exitStatus>>
rmtVars  == <<rpc, runs, ri, rresults, calls, stdout>>
statVars == <<values, stats>>
genVars  == <<gpc, count, clock, records>>
vars     == <<orchVars, rmtVars, statVars, genVars>>

-----------------------------------------------------------------------------
(* Bounds and program constants *)

\* The data sizes 1000, 10000, 100000 of the scripts, scaled down to
\* Scale, Scale + 1, Scale + 2 documents: three strictly increasing sizes.
Scale == 1

dataSizes == <<Scale, Scale + 1, Scale + 2>>

\* CONFIG.testRuns
testRuns == 5

\* runMultipleTests on its own is called with runs in 0..MaxRuns, and its test
\* function returns a duration in 0..MaxElapsed.
MaxRuns == 4

MaxElapsed == 2

\* calculateStats is given 1..MaxSamples durations, each in 0..MaxSample.
MaxSamples == 4

MaxSample == 3

\* generateData on its own is called with count in 0..MaxCount.
MaxCount == 6

\* The offset in milliseconds between two records of a batch.
StepMs == 1000

\* Math.random() * 100, sampled on both sides of the delete filter value > 50.
ValueSamples == {50, 51}

Size == dataSizes[sizeIdx]

-----------------------------------------------------------------------------
(* The database engine, as the scripts observe it *)

\* The timeseries options literal passed to db.createCollection.
TimeSeriesOptions ==
    [timeField |-> "timestamp", metaField |-> "meta", granularity |-> "seconds"]

\* What the server holds under the name timeSeriesCollection before anything
\* was created: the ephemeral host starts with an empty data directory.
NoOptions == [timeField |-> "", metaField |-> "", granularity |-> ""]

NoCollection == [exists |-> FALSE, incarnation |-> 0, options |-> NoOptions, docs |-> {}]

\* The filters of the scripts: {} and { value: { $gt: 50 } }.
Matches(doc, filter) ==
    IF filter = "all" THEN TRUE ELSE doc.value > 50

\* collection.deleteMany(filter)
DeleteMany(docs, filter) == {d \in docs : ~Matches(d, filter)}

\* collection.insertMany(data)
InsertMany(docs, data) == docs \cup data

\* collection.drop(): by name, whatever instance is there now.
Drop(c) == [c EXCEPT !.exists = FALSE, !.docs = {}]

\* db.createCollection(name, {timeseries: options}) on a free name.
CreateCollection(c, options) ==
    [exists |-> TRUE, incarnation |-> c.incarnation + 1,
     options |-> options, docs |-> {}]

\* insertMany through a handle of the name timeSeriesCollection.  A write to a
\* name that holds no collection creates a regular collection implicitly.
InsertManyTs(c, data) ==
    IF c.exists
    THEN [c EXCEPT !.docs = InsertMany(c.docs, data)]
    ELSE [exists |-> TRUE, incarnation |-> c.incarnation + 1,
          options |-> NoOptions, docs |-> data]

DeleteManyTs(c, filter) == [c EXCEPT !.docs = DeleteMany(c.docs, filter)]

\* generateData(count) as the orchestrator stores it: one document per index,
\* identified by the generateData call that made it (tag) and its index, with
\* the value drawn by Math.random.  The timestamp and the sensor tag are read
\* by no operation whose result the orchestrator keeps, and are left out here;
\* GenerateRecord below models them.
Batches(tag, n) ==
    { {[id |-> <<tag, i>>, value |-> f[i]] : i \in 0..(n - 1)} :
        f \in [0..(n - 1) -> ValueSamples] }

-----------------------------------------------------------------------------
(* The multi-trial orchestrator: run() of src/unnamed/part_000 *)

NoHandles ==
    [timeSeriesCollection |-> 0, newTimeSeriesCollection |-> 0,
     recreatedCollection |-> 0, finalTimeSeriesCollection |-> 0,
     tempCollection |-> 0]

IdleRmt  == rpc = "idle" /\ runs = 0 /\ ri = 0 /\ rresults = <<>>
            /\ calls = <<>> /\ stdout = <<>>
IdleStat == values = <<>> /\ stats = <<>>
IdleGen  == gpc = "idle" /\ count = 0 /\ clock = 0 /\ records = <<>>

InitOrch(start) ==
    /\ pc = start
    /\ sizeIdx = 1
    /\ trial = 0
    /\ general = {}
    /\ ts = NoCollection
    /\ handle = NoHandles
    /\ finalData = {}
    /\ measured = 0
    /\ rejection = <<>>
    /\ life = <<>>
    /\ callsAfterClose = 0
    /\ swallowed = {}
    /\ stderr = <<>>
    /\ exitStatus = <<>>

InitMulti == InitOrch("create") /\ IdleRmt /\ IdleStat /\ IdleGen

Others == UNCHANGED <<rmtVars, statVars, genVars>>

Closed == \E k \in 1..Len(life) : life[k] = "close"

\* Bookkeeping of one call to the database engine.
Issue == callsAfterClose' = IF Closed THEN callsAfterClose + 1 ELSE callsAfterClose

\* An awaited call rejects and nothing in run() catches it: run()'s promise
\* rejects.
Throw(err) ==
    /\ pc' = "rejected"
    /\ rejection' = <<err>>
    /\ UNCHANGED <<sizeIdx, trial, general, ts, handle, finalData, measured,
                   life, swallowed, stderr, exitStatus>>

\* Control moves on to the next await of the same trial.
Goto(next) == pc' = next /\ UNCHANGED <<sizeIdx, trial, measured>>

\* The end of one trial of runMultipleTests: the measure* function returns
\* its duration, results.push(result), i++, and either the next invocation of
\* the test function or the code after the call.
TrialEnd(first, after) ==
    /\ measured' = measured + 1
    /\ IF trial + 1 < testRuns
       THEN pc' = first /\ trial' = trial + 1 /\ UNCHANGED sizeIdx
       ELSE pc' = after /\ trial' = 0 /\ UNCHANGED sizeIdx

\* The end of one trial of the last runMultipleTests of the loop body: after
\* its last trial the for loop takes the next size, or run() goes on to close.
LastTrialEnd(first, loopTop, after) ==
    /\ measured' = measured + 1
    /\ IF trial + 1 < testRuns
       THEN pc' = first /\ trial' = trial + 1 /\ UNCHANGED sizeIdx
       ELSE IF sizeIdx < Len(dataSizes)
            THEN pc' = loopTop /\ trial' = 0 /\ sizeIdx' = sizeIdx + 1
            ELSE pc' = after /\ trial' = 0 /\ UNCHANGED sizeIdx

\* One await db.createCollection('timeSeriesCollection', ...): the server
\* refuses a name that is taken (NamespaceExists), and may fail otherwise.
\* The Collection returned is bound to the local `local`.
CreateStep(at, next, local, options) ==
    /\ pc = at
    /\ \E ok \in BOOLEAN :
         IF ts.exists
         THEN Throw("NamespaceExists")
         ELSE IF ok
              THEN /\ ts' = CreateCollection(ts, options)
                   /\ handle' = [handle EXCEPT ![local] = ts'.incarnation]
                   /\ Goto(next)
                   /\ UNCHANGED <<general, finalData, measured, rejection, life,
                                  swallowed, stderr, exitStatus>>
              ELSE Throw("Other")
    /\ Issue
    /\ Others

\* The error of one drop(): NamespaceNotFound when the name holds no
\* collection, otherwise none, or some other failure of the call.
DropError(ok) ==
    IF ~ts.exists THEN "NamespaceNotFound" ELSE IF ok THEN "none" ELSE "Other"

\* One await <handle>.drop().catch(() => { }): the handle names the
\* collection, so the drop removes whatever instance holds the name.  A drop
\* that fails for another reason than a missing collection may or may not
\* have been applied by the server (a lost reply).  The catch takes every
\* error, and run() goes on to the next statement.
DropStep(at, next) ==
    /\ pc = at
    /\ \E ok \in BOOLEAN, applied \in BOOLEAN :
         /\ ts' = IF DropError(ok) = "none" \/ (DropError(ok) = "Other" /\ applied)
                  THEN Drop(ts)
                  ELSE ts
         /\ swallowed' = IF DropError(ok) = "none" THEN swallowed
                         ELSE swallowed \cup {DropError(ok)}
    /\ Goto(next)
    /\ UNCHANGED <<general, handle, finalData, measured, rejection, life,
                   stderr, exitStatus>>
    /\ Issue
    /\ Others

\* One await generalCollection.deleteMany(filter); `done` is where control
\* goes when it resolves.
DeleteGeneralStep(at, filter, done) ==
    /\ pc = at
    /\ \E ok \in BOOLEAN :
         IF ok
         THEN /\ general' = DeleteMany(general, filter)
              /\ done
              /\ UNCHANGED <<ts, handle, finalData, rejection, life, swallowed,
                             stderr, exitStatus>>
         ELSE Throw("Other")
    /\ Issue
    /\ Others

\* One await <time-series handle>.deleteMany(filter)
DeleteTsStep(at, filter, done) ==
    /\ pc = at
    /\ \E ok \in BOOLEAN :
         IF ok
         THEN /\ ts' = DeleteManyTs(ts, filter)
              /\ done
              /\ UNCHANGED <<general, handle, finalData, rejection, life, swallowed,
                             stderr, exitStatus>>
         ELSE Throw("Other")
    /\ Issue
    /\ Others

\* One await generalCollection.insertMany(data), data one of `choices`.
InsertGeneralStep(at, choices, done) ==
    /\ pc = at
    /\ \E ok \in BOOLEAN, data \in choices :
         IF ok
         THEN /\ general' = InsertMany(general, data)
              /\ done
              /\ UNCHANGED <<ts, handle, finalData, rejection, life, swallowed,
                             stderr, exitStatus>>
         ELSE Throw("Other")
    /\ Issue
    /\ Others

\* One await <time-series handle>.insertMany(data), data one of `choices`.
InsertTsStep(at, choices, done) ==
    /\ pc = at
    /\ \E ok \in BOOLEAN, data \in choices :
         IF ok
         THEN /\ ts' = InsertManyTs(ts, data)
              /\ done
              /\ UNCHANGED <<general, handle, finalData, rejection, life, swallowed,
                             stderr, exitStatus>>
         ELSE Throw("Other")
    /\ Issue
    /\ Others

\* One awaited call that reads the database and changes nothing in it:
\* find(query).toArray(), db.command({ collStats }), db.command({ buildInfo }).
ReadStep(at, done) ==
    /\ pc = at
    /\ \E ok \in BOOLEAN :
         IF ok
         THEN /\ done
              /\ UNCHANGED <<general, ts, handle, finalData, rejection, life,
                             swallowed, stderr, exitStatus>>
         ELSE Throw("Other")
    /\ Issue
    /\ Others

\* One lifecycle call of the host or the client, recorded in `life`.
LifeStep(at, next, event) ==
    /\ pc = at
    /\ \E ok \in BOOLEAN :
         IF ok
         THEN /\ life' = Append(life, event)
              /\ Goto(next)
              /\ UNCHANGED <<general, ts, handle, finalData, measured, rejection,
                             swallowed, stderr, exitStatus>>
         ELSE Throw("Other")
    /\ UNCHANGED callsAfterClose
    /\ Others

\* The batch a generateData(size) call at `site` returns in this trial (trial
\* is 0 outside runMultipleTests), and what identifies it.
TagOf(site) == <<sizeIdx, site, trial>>

Fresh(site) == Batches(TagOf(site), Size)

\* L124: const replSet = await MongoMemoryReplSet.create()
ReplSetCreate == LifeStep("create", "connect", "create")

\* L128: await client.connect()
ClientConnect == LifeStep("connect", "buildInfo", "connect")

\* L129: await client.db().command({ buildInfo: 1 })
BuildInfo == ReadStep("buildInfo", Goto("setupCreate"))

\* L141: const timeSeriesCollection = await db.createCollection(...)
SetupCreateCollection ==
    CreateStep("setupCreate", "resetClear", "timeSeriesCollection", TimeSeriesOptions)

\* L163: await generalCollection.deleteMany({})
ResetClearGeneral == DeleteGeneralStep("resetClear", "all", Goto("resetDrop"))

\* ResetDrop without the drop: the per-size reset goes straight to the create.
ResetDrop_Missing ==
    /\ pc = "resetDrop"
    /\ Goto("resetCreate")
    /\ UNCHANGED <<general, ts, handle, finalData, rejection, life,
                   callsAfterClose, swallowed, stderr, exitStatus>>
    /\ Others

\* L164: await timeSeriesCollection.drop().catch(() => { })
ResetDrop == DropStep("resetDrop", "resetCreate")

\* L165: const newTimeSeriesCollection = await db.createCollection(...)
ResetCreate ==
    CreateStep("resetCreate", "igClear", "newTimeSeriesCollection", TimeSeriesOptions)

\* L177: await generalCollection.deleteMany({})
InsertGeneralClear == DeleteGeneralStep("igClear", "all", Goto("igInsert"))

\* L178-179: measureInsertSpeed(generalCollection, generateData(size))
InsertGeneralTimed ==
    InsertGeneralStep("igInsert", Fresh("insertGeneral"), TrialEnd("igClear", "itDrop"))

\* L187: await newTimeSeriesCollection.drop().catch(() => { })
InsertTsDrop == DropStep("itDrop", "itCreate")

\* L188: const recreatedCollection = await db.createCollection(...)
InsertTsCreate ==
    CreateStep("itCreate", "itInsert", "recreatedCollection", TimeSeriesOptions)

\* L195-196: measureInsertSpeed(recreatedCollection, generateData(size))
InsertTsTimed ==
    InsertTsStep("itInsert", Fresh("insertTs"), TrialEnd("itDrop", "rpGenerate"))

\* L210: const finalData = generateData(size)
RepopGenerate ==
    /\ pc = "rpGenerate"
    /\ finalData' \in Fresh("final")
    /\ Goto("rpClear")
    /\ UNCHANGED <<general, ts, handle, measured, rejection, life,
                   callsAfterClose, swallowed, stderr, exitStatus>>
    /\ Others

\* RepopClearGeneral without the deleteMany: the last insert trial's batch stays.
RepopClearGeneral_Missing ==
    /\ pc = "rpClear"
    /\ Goto("rpDrop")
    /\ UNCHANGED <<general, ts, handle, finalData, rejection, life,
                   callsAfterClose, swallowed, stderr, exitStatus>>
    /\ Others

\* L211: await generalCollection.deleteMany({})
RepopClearGeneral == DeleteGeneralStep("rpClear", "all", Goto("rpDrop"))

\* L212: await newTimeSeriesCollection.drop().catch(() => { })
RepopDrop == DropStep("rpDrop", "rpCreate")

\* L213: const finalTimeSeriesCollection = await db.createCollection(...)
RepopCreate ==
    CreateStep("rpCreate", "rpInsertG", "finalTimeSeriesCollection", TimeSeriesOptions)

\* L220: await generalCollection.insertMany(finalData)
RepopInsertGeneral == InsertGeneralStep("rpInsertG", {finalData}, Goto("rpInsertT"))

\* L221: await finalTimeSeriesCollection.insertMany(finalData)
RepopInsertTs == InsertTsStep("rpInsertT", {finalData}, Goto("statG"))

\* L224: getCollectionStats(db, 'generalCollection')
StatsGeneral == ReadStep("statG", Goto("statT"))

\* L225: getCollectionStats(db, 'timeSeriesCollection')
StatsTs == ReadStep("statT", Goto("qG"))

\* L240-244: measureQuerySpeed(generalCollection, query), testRuns times
QueryGeneralTimed == ReadStep("qG", TrialEnd("qG", "qT"))

\* L246-250: measureQuerySpeed(finalTimeSeriesCollection, query), testRuns times
QueryTsTimed == ReadStep("qT", TrialEnd("qT", "dgClear"))

\* DeleteGeneralClear without the deleteMany: what the trial before left stays.
DeleteGeneralClear_Missing ==
    /\ pc = "dgClear"
    /\ Goto("dgInsert")
    /\ UNCHANGED <<general, ts, handle, finalData, rejection, life,
                   callsAfterClose, swallowed, stderr, exitStatus>>
    /\ Others

\* L265: await generalCollection.deleteMany({})
DeleteGeneralClear == DeleteGeneralStep("dgClear", "all", Goto("dgInsert"))

\* L266: await generalCollection.insertMany(generateData(size))
DeleteGeneralInsert ==
    InsertGeneralStep("dgInsert", Fresh("deleteGeneral"), Goto("dgDelete"))

\* L267: measureDeleteSpeed(generalCollection, deleteQuery)
DeleteGeneralTimed ==
    DeleteGeneralStep("dgDelete", "valueGt50", TrialEnd("dgClear", "dtDrop"))

\* L276: await finalTimeSeriesCollection.drop().catch(() => { })
DeleteTsDrop == DropStep("dtDrop", "dtCreate")

\* L277: const tempCollection = await db.createCollection(...)
DeleteTsCreate ==
    CreateStep("dtCreate", "dtInsert", "tempCollection", TimeSeriesOptions)

\* L284: await tempCollection.insertMany(generateData(size))
DeleteTsInsert == InsertTsStep("dtInsert", Fresh("deleteTs"), Goto("dtDelete"))

\* L285: measureDeleteSpeed(tempCollection, deleteQuery)
DeleteTsTimed ==
    DeleteTsStep("dtDelete", "valueGt50", LastTrialEnd("dtDrop", "resetClear", "close"))

\* ClientClose with the two teardown calls swapped: the host is stopped where
\* the client should be closed.
ClientClose_StopsHost == LifeStep("close", "stop", "stop")

\* L303: await client.close()
ClientClose == LifeStep("close", "stop", "close")

\* L304: await replSet.stop()
ReplSetStop == LifeStep("stop", "returned", "stop")

\* L307: run().catch(err => console.error(err)): the handler logs the error
\* and returns; it sets no exit code and ends nothing.
Catch ==
    /\ pc = "rejected"
    /\ stderr' = Append(stderr, rejection[1])
    /\ pc' = "caught"
    /\ UNCHANGED <<sizeIdx, trial, general, ts, handle, finalData, measured,
                   rejection, life, callsAfterClose, swallowed, exitStatus>>
    /\ Others

\* The process ends when nothing is left to run.  No uncaught exception and no
\* unhandled rejection is pending (the catch handled it) and process.exitStatus
\* was never assigned, so the status is 0.  After a caught failure the client
\* and the host were never released and may keep the process alive: the exit
\* is possible, not certain.
ProcessExit ==
    /\ pc \in {"returned", "caught"}
    /\ exitStatus = <<>>
    /\ exitStatus' = <<0>>
    /\ UNCHANGED <<pc, sizeIdx, trial, general, ts, handle, finalData, measured,
                   rejection, life, callsAfterClose, swallowed, stderr>>
    /\ Others

MultiSteps ==
    \/ ReplSetCreate \/ ClientConnect \/ BuildInfo \/ SetupCreateCollection
    \/ ResetClearGeneral \/ ResetDrop \/ ResetCreate
    \/ InsertGeneralClear \/ InsertGeneralTimed
    \/ InsertTsDrop \/ InsertTsCreate \/ InsertTsTimed
    \/ RepopGenerate \/ RepopClearGeneral \/ RepopDrop \/ RepopCreate
    \/ RepopInsertGeneral \/ RepopInsertTs
    \/ StatsGeneral \/ StatsTs \/ QueryGeneralTimed \/ QueryTsTimed
    \/ DeleteGeneralClear \/ DeleteGeneralInsert \/ DeleteGeneralTimed
    \/ DeleteTsDrop \/ DeleteTsCreate \/ DeleteTsInsert \/ DeleteTsTimed
    \/ ClientClose \/ ReplSetStop
    \/ Catch

NextMulti == MultiSteps \/ ProcessExit

SpecMulti == InitMulti /\ [][NextMulti]_vars

\* Every awaited call settles (the claim's runs are those in which every call
\* succeeds), and the handler of a rejection runs.
FairSpecMulti == SpecMulti /\ WF_vars(MultiSteps)

-----------------------------------------------------------------------------
(* The single-trial orchestrator: run() of src/main.ts.  Its top-level       *)
(* handler and its exit are, word for word, those of the multi-trial script *)
(* (Catch, ProcessExit).                                                    *)

InitSingle == InitOrch("sCreate") /\ IdleRmt /\ IdleStat /\ IdleGen

\* A measure* function returns its duration and run() goes on.
Measured(next) ==
    pc' = next /\ measured' = measured + 1 /\ UNCHANGED <<sizeIdx, trial>>

\* The end of the for loop's body: the next size, or the code after the loop.
NextSize(loopTop, after) ==
    /\ measured' = measured + 1
    /\ UNCHANGED trial
    /\ IF sizeIdx < Len(dataSizes)
       THEN pc' = loopTop /\ sizeIdx' = sizeIdx + 1
       ELSE pc' = after /\ UNCHANGED sizeIdx

\* main.ts L66: const replSet = await MongoMemoryReplSet.create()
SingleReplSetCreate == LifeStep("sCreate", "sConnect", "create")

\* main.ts L70: await client.connect()
SingleClientConnect == LifeStep("sConnect", "sBuildInfo", "connect")

\* main.ts L72: await client.db().command({ buildInfo: 1 })
SingleBuildInfo == ReadStep("sBuildInfo", Goto("sSetupCreate"))

\* main.ts L81: const timeSeriesCollection = await db.createCollection(...)
SingleSetupCreateCollection ==
    CreateStep("sSetupCreate", "sGenerate", "timeSeriesCollection", TimeSeriesOptions)

\* main.ts L100: const data = generateData(size)
SingleGenerate ==
    /\ pc = "sGenerate"
    /\ finalData' \in Batches(<<sizeIdx, "data", 0>>, Size)
    /\ Goto("sInsertG")
    /\ UNCHANGED <<general, ts, handle, rejection, life, callsAfterClose,
                   swallowed, stderr, exitStatus>>
    /\ Others

\* main.ts L108: measureInsertSpeed(generalCollection, data)
SingleInsertGeneral == InsertGeneralStep("sInsertG", {finalData}, Measured("sInsertT"))

\* main.ts L109: measureInsertSpeed(timeSeriesCollection, data)
SingleInsertTs == InsertTsStep("sInsertT", {finalData}, Measured("sStatG"))

\* main.ts L116: getCollectionStats(db, 'generalCollection')
SingleStatsGeneral == ReadStep("sStatG", Goto("sStatT"))

\* main.ts L117: getCollectionStats(db, 'timeSeriesCollection')
SingleStatsTs == ReadStep("sStatT", Goto("sQueryG"))

\* main.ts L132: measureQuerySpeed(generalCollection, query)
SingleQueryGeneral == ReadStep("sQueryG", Measured("sQueryT"))

\* main.ts L133: measureQuerySpeed(timeSeriesCollection, query)
SingleQueryTs == ReadStep("sQueryT", Measured("sDeleteG"))

\* main.ts L142: measureDeleteSpeed(generalCollection, deleteQuery)
SingleDeleteGeneral == DeleteGeneralStep("sDeleteG", "valueGt50", Measured("sDeleteT"))

\* main.ts L143: measureDeleteSpeed(timeSeriesCollection, deleteQuery)
SingleDeleteTs == DeleteTsStep("sDeleteT", "valueGt50", NextSize("sGenerate", "sClose"))

\* main.ts L154: await client.close()
SingleClientClose == LifeStep("sClose", "sStop", "close")

\* main.ts L155: await replSet.stop()
SingleReplSetStop == LifeStep("sStop", "returned", "stop")

SingleSteps ==
    \/ SingleReplSetCreate \/ SingleClientConnect \/ SingleBuildInfo
    \/ SingleSetupCreateCollection \/ SingleGenerate
    \/ SingleInsertGeneral \/ SingleInsertTs
    \/ SingleStatsGeneral \/ SingleStatsTs
    \/ SingleQueryGeneral \/ SingleQueryTs
    \/ SingleDeleteGeneral \/ SingleDeleteTs
    \/ SingleClientClose \/ SingleReplSetStop
    \/ Catch

NextSingle == SingleSteps \/ ProcessExit

SpecSingle == InitSingle /\ [][NextSingle]_vars

-----------------------------------------------------------------------------
(* Properties of the multi-trial orchestrator *)

\* `docs` is exactly one whole batch of the current size, the one tagged `tag`.
WholeBatch(docs, tag) ==
    /\ Cardinality(docs) = Size
    /\ \A d \in docs : d.id[1] = tag

\* From the storage-size check through the last query trial.
AfterInsertPhase ==
    \/ pc \in {"statG", "statT", "qG", "qT"}
    \/ pc = "dgClear" /\ trial = 0

\* C1: once the insert phase of a size has finished, and from the
\* storage-size check through the last query trial, generalCollection and
\* timeSeriesCollection each hold exactly `size` documents, all of them the
\* batch finalData generated for that size; the query trials change neither.
C1_PopulatedWithFinalData ==
    AfterInsertPhase =>
        /\ general = finalData
        /\ ts.exists /\ ts.docs = finalData
        /\ WholeBatch(finalData, <<sizeIdx, "final", 0>>)

C1_Witness ==
    /\ pc = "dgClear" /\ trial = 0 /\ sizeIdx = Len(dataSizes)
    /\ measured = (Len(dataSizes) - 1) * 6 * testRuns + 4 * testRuns
    /\ Cardinality(general) = dataSizes[Len(dataSizes)]
    /\ ts.docs = general

\* C2: at the start of every timed insertMany the target collection holds no
\* document, and at the start of every timed deleteMany it holds exactly
\* `size` documents, all from the batch generated inside that same trial.
C2_TrialStartsFromOwnSetup ==
    /\ pc = "igInsert" => general = {}
    /\ pc = "itInsert" => ts.exists /\ ts.docs = {}
    /\ pc = "dgDelete" => WholeBatch(general, TagOf("deleteGeneral"))
    /\ pc = "dtDelete" => ts.exists /\ WholeBatch(ts.docs, TagOf("deleteTs"))

C2_Witness ==
    /\ pc = "dgDelete" /\ sizeIdx = 2 /\ trial = testRuns - 1
    /\ WholeBatch(general, TagOf("deleteGeneral"))
    /\ \E d \in general : d.value <= 50

\* C4: the only failure the orchestrator tolerates is a drop of a collection
\* that does not exist; a drop that fails for another reason, like a failure
\* of any other call, reaches the top-level handler and nothing later runs.
C4_OnlyMissingDropTolerated ==
    /\ swallowed \subseteq {"NamespaceNotFound"}
    /\ rejection # <<>> => pc \in {"rejected", "caught"}

\* The awaits of run() that call db.createCollection.
CreateSites == {"setupCreate", "resetCreate", "itCreate", "rpCreate", "dtCreate"}

\* The Collection held by `local` is the instance that holds the name now, and
\* that instance has the time-series configuration.
TargetsLatest(local) ==
    /\ ts.exists
    /\ handle[local] = ts.incarnation
    /\ ts.options = TimeSeriesOptions

\* C10: when every database call succeeds, every createCollection of
\* timeSeriesCollection is issued while the name is free, so no run aborts on
\* NamespaceExists, and every timed operation on the time-series variant goes
\* through the handle of the instance created last, which has the one
\* time-series configuration.
C10_CreateOnFreeName ==
    swallowed = {} =>
        /\ pc \in CreateSites => ~ts.exists
        /\ rejection # <<"NamespaceExists">>
        /\ pc = "itInsert" => TargetsLatest("recreatedCollection")
        /\ pc = "qT" => TargetsLatest("finalTimeSeriesCollection")
        /\ pc = "dtDelete" => TargetsLatest("tempCollection")

C10_Witness ==
    /\ pc = "resetCreate" /\ sizeIdx = 2 /\ swallowed = {}
    /\ ~ts.exists /\ ts.incarnation = 2 + 2 * testRuns + 1

\* The lifecycle calls of a whole run, in order.
Lifecycle == <<"create", "connect", "close", "stop">>

\* What has been called so far is a prefix of the lifecycle; every phase runs
\* connected; the close comes after all 6 * testRuns timed operations of every
\* size; no database call follows it.
C5_LifecycleOrder ==
    /\ Len(life) <= Len(Lifecycle)
    /\ \A k \in 1..Len(life) : life[k] = Lifecycle[k]
    /\ (pc \notin {"create", "connect", "rejected", "caught"}) => Len(life) >= 2
    /\ Len(life) >= 3 => measured = Len(dataSizes) * 6 * testRuns
    /\ callsAfterClose = 0
    /\ pc = "returned" => life = Lifecycle

\* C5: in a run in which every call succeeds the host is created once and the
\* client connected once before any phase; client.close() and replSet.stop()
\* each happen once, in that order, after the delete phase of the last size;
\* no database call follows the close; and the run reaches this teardown.
C5_TeardownOnce ==
    /\ []C5_LifecycleOrder
    /\ <>(rejection # <<>> \/ (pc = "returned" /\ life = Lifecycle))

C5_Witness ==
    /\ pc = "returned" /\ rejection = <<>> /\ swallowed = {}
    /\ life = Lifecycle /\ exitStatus = <<0>>

-----------------------------------------------------------------------------
(* Properties of the single-trial orchestrator and of the top-level handler *)

\* C3: for each data size taken in order, generalCollection and
\* timeSeriesCollection are both empty when the timed insert for that size
\* begins, so that right after the insert each holds exactly `size` documents,
\* whatever the delete phase of the size before left behind.
C3_CleanStartPerSize ==
    /\ pc = "sInsertG" => general = {} /\ ts.docs = {}
    /\ pc = "sStatG" => Cardinality(general) = Size /\ Cardinality(ts.docs) = Size

\* C6: when a call inside run() fails with an error that is not swallowed, the
\* error object is logged to standard error exactly once and the process then
\* ends with a non-zero exit status.
C6_FailureExitsNonZero ==
    /\ pc = "caught" => stderr = rejection
    /\ (Len(life) = 2 /\ rejection # <<>> /\ exitStatus # <<>>) =>
           /\ stderr = rejection
           /\ exitStatus # <<0>>

-----------------------------------------------------------------------------
(* runMultipleTests(testFunction, runs, description) on its own *)

OrchIdle ==
    /\ InitOrch("idle")

InitRmt ==
    /\ rpc = "start"
    /\ runs \in 0..MaxRuns
    /\ ri = 0
    /\ rresults = <<>>
    /\ calls = <<>>
    /\ stdout = <<>>
    /\ OrchIdle /\ IdleStat /\ IdleGen

RmtOthers == UNCHANGED <<orchVars, statVars, genVars>>

\* The invocations of testFunction whose promise has not settled.
InFlight == Cardinality({k \in 1..Len(calls) : calls[k].state = "pending"})

\* The values the fulfilled invocations returned, in invocation order.
RECURSIVE ReturnedBy(_)
ReturnedBy(cs) ==
    IF cs = <<>> THEN <<>>
    ELSE IF cs[1].state = "fulfilled"
         THEN <<cs[1].value>> \o ReturnedBy(Tail(cs))
         ELSE ReturnedBy(Tail(cs))

\* L91-92: const results = []; process.stdout.write(header)
RmtStart ==
    /\ rpc = "start"
    /\ rresults' = <<>>
    /\ stdout' = Append(stdout, "header")
    /\ rpc' = "loop"
    /\ UNCHANGED <<runs, ri, calls>>
    /\ RmtOthers

\* RmtInvoke without the await: the loop goes on while the call is pending.
RmtInvoke_NoAwait ==
    /\ rpc = "loop"
    /\ ri < runs
    /\ stdout' = Append(stdout, ri + 1)
    /\ calls' = Append(calls, [state |-> "pending", value |-> 0])
    /\ ri' = ri + 1
    /\ UNCHANGED <<rpc, runs, rresults>>
    /\ RmtOthers

\* L94-96: i < runs; process.stdout.write(` ${i + 1}`); await testFunction()
\* The test function is called and runMultipleTests is suspended on it.
RmtInvoke ==
    /\ rpc = "loop"
    /\ ri < runs
    /\ stdout' = Append(stdout, ri + 1)
    /\ calls' = Append(calls, [state |-> "pending", value |-> 0])
    /\ rpc' = "await"
    /\ UNCHANGED <<runs, ri, rresults>>
    /\ RmtOthers

\* L96-97, L94: the awaited promise fulfils with a duration;
\* results.push(result); i++
RmtResolve ==
    /\ rpc = "await"
    /\ \E v \in 0..MaxElapsed :
         /\ calls' = [calls EXCEPT ![Len(calls)] = [state |-> "fulfilled", value |-> v]]
         /\ rresults' = Append(rresults, v)
    /\ ri' = ri + 1
    /\ rpc' = "loop"
    /\ UNCHANGED <<runs, stdout>>
    /\ RmtOthers

\* L96: the awaited promise rejects; nothing catches it, and the promise of
\* runMultipleTests rejects.
RmtReject ==
    /\ rpc = "await"
    /\ calls' = [calls EXCEPT ![Len(calls)] = [state |-> "rejected", value |-> 0]]
    /\ rpc' = "threw"
    /\ UNCHANGED <<runs, ri, rresults, stdout>>
    /\ RmtOthers

\* L94, L100-101: i < runs is false; console.log(' ✅'); return results
RmtReturn ==
    /\ rpc = "loop"
    /\ ~(ri < runs)
    /\ stdout' = Append(stdout, "done")
    /\ rpc' = "returned"
    /\ UNCHANGED <<runs, ri, rresults, calls>>
    /\ RmtOthers

NextRmt == RmtStart \/ RmtInvoke \/ RmtResolve \/ RmtReject \/ RmtReturn

SpecRmt == InitRmt /\ [][NextRmt]_vars

\* C7: with runs >= 1, trial i+1 starts only after trial i has completed, so at
\* most one trial is in flight; when all trials succeed the function returns
\* exactly `runs` results, the k-th being the value the k-th invocation
\* returned; when a trial fails no further trial is started, nothing is
\* retried, and the failure propagates.
C7_SequentialTrials ==
    runs >= 1 =>
        /\ InFlight <= 1
        /\ \A k \in 1..Len(calls) : k < Len(calls) => calls[k].state = "fulfilled"
        /\ rpc = "returned" =>
               /\ Len(calls) = runs
               /\ Len(rresults) = runs
               /\ rresults = ReturnedBy(calls)
        /\ rpc = "threw" =>
               /\ calls[Len(calls)].state = "rejected"
               /\ Len(calls) = Len(rresults) + 1
               /\ Len(calls) <= runs
        /\ Len(calls) <= runs

C7_Witness ==
    /\ rpc = "returned" /\ runs = MaxRuns
    /\ rresults = [k \in 1..MaxRuns |-> IF k = 1 THEN MaxElapsed ELSE 0]

-----------------------------------------------------------------------------
(* calculateStats(values) on its own.  JavaScript numbers are modelled as    *)
(* exact rationals [num, den] with den > 0; Math.sqrt(x) is kept symbolic   *)
(* as [sqrtOf |-> x].                                                       *)

Rat(n, d) == [num |-> n, den |-> d]

RatLeq(a, b) == a.num * b.den <= b.num * a.den

RatEq(a, b) == a.num * b.den = b.num * a.den

RECURSIVE Sum(_)
\* values.reduce((sum, val) => sum + val, 0)
Sum(vs) == IF vs = <<>> THEN 0 ELSE vs[1] + Sum(Tail(vs))

RECURSIVE Insert(_, _)
Insert(x, sorted) ==
    IF sorted = <<>> THEN <<x>>
    ELSE IF x - sorted[1] < 0 THEN <<x>> \o sorted
         ELSE <<sorted[1]>> \o Insert(x, Tail(sorted))

RECURSIVE SortAsc(_)
\* [...values].sort((a, b) => a - b): a sorted copy, ascending by a - b.
SortAsc(vs) == IF vs = <<>> THEN <<>> ELSE Insert(vs[1], SortAsc(Tail(vs)))

\* values.reduce(...) / values.length
Mean(vs) == Rat(Sum(vs), Len(vs))

RECURSIVE SumSquaredDeviations(_, _, _)
\* The sum of Math.pow(val - mean, 2) with mean = s / n, over n * n.
SumSquaredDeviations(vs, s, n) ==
    IF vs = <<>> THEN 0
    ELSE (vs[1] * n - s) * (vs[1] * n - s) + SumSquaredDeviations(Tail(vs), s, n)

\* Variance with the sample divisor: the sum of squares over length - 1.
Variance_Sample(vs) ==
    Rat(SumSquaredDeviations(vs, Sum(vs), Len(vs)),
        Len(vs) * Len(vs) * (Len(vs) - 1))

\* values.reduce((sum, val) => sum + Math.pow(val - mean, 2), 0) / values.length
Variance(vs) ==
    Rat(SumSquaredDeviations(vs, Sum(vs), Len(vs)), Len(vs) * Len(vs) * Len(vs))

\* sorted.length % 2 === 0 ? (sorted[n/2 - 1] + sorted[n/2]) / 2
\*                         : sorted[Math.floor(n/2)]      (0-based indices)
Median(sorted) ==
    IF Len(sorted) % 2 = 0
    THEN Rat(sorted[Len(sorted) \div 2] + sorted[Len(sorted) \div 2 + 1], 2)
    ELSE Rat(sorted[Len(sorted) \div 2 + 1], 1)

\* Math.min(...values), Math.max(...values)
MathMin(vs) == CHOOSE x \in {vs[k] : k \in 1..Len(vs)} : \A k \in 1..Len(vs) : x <= vs[k]

MathMax(vs) == CHOOSE x \in {vs[k] : k \in 1..Len(vs)} : \A k \in 1..Len(vs) : x >= vs[k]

calculateStats(vs) ==
    [mean   |-> Mean(vs),
     min    |-> MathMin(vs),
     max    |-> MathMax(vs),
     stdDev |-> [sqrtOf |-> Variance(vs)],
     median |-> Median(SortAsc(vs))]

\* The caller's array after the call, had the sort been done in place.
ArrayAfterCall_SortedInPlace(vs) == SortAsc(vs)

\* The caller's array after the call: the sort works on the copy [...values],
\* reduce, Math.min and Math.max only read.
ArrayAfterCall(vs) == vs

RECURSIVE SeqsUpTo(_, _)
\* The sequences over S of length 1..n.
SeqsUpTo(S, n) ==
    IF n = 0 THEN {}
    ELSE SeqsUpTo(S, n - 1) \cup [1..n -> S]

InitStat ==
    /\ values \in SeqsUpTo(0..MaxSample, MaxSamples)
    /\ stats = <<>>
    /\ OrchIdle /\ IdleRmt /\ IdleGen

CalculateStats ==
    /\ stats = <<>>
    /\ stats' = <<calculateStats(values)>>
    /\ values' = ArrayAfterCall(values)
    /\ UNCHANGED <<orchVars, rmtVars, genVars>>

NextStat == CalculateStats

SpecStat == InitStat /\ [][NextStat]_vars

-----------------------------------------------------------------------------
(* generateData(count) on its own *)

\* How far the wall clock may have moved between two reads of Date.now().
ClockSteps == {0, 1, StepMs}

\* The callback of Array.from for index i, with Date.now() = now and
\* Math.random() * 100 = value.
GenerateRecord(i, now, value) ==
    [timestamp |-> now - i * StepMs,
     value     |-> value,
     meta      |-> [sensor |-> <<"sensor", i % 5>>]]

InitGen ==
    /\ gpc = "start"
    /\ count \in 0..MaxCount
    /\ clock = 0
    /\ records = <<>>
    /\ OrchIdle /\ IdleRmt /\ IdleStat

\* L151-155: one call of the callback; the clock is read for this record.
GenRecord ==
    /\ gpc = "start"
    /\ Len(records) < count
    /\ \E d \in ClockSteps, v \in ValueSamples :
         /\ clock' = clock + d
         /\ records' = Append(records, GenerateRecord(Len(records), clock', v))
    /\ UNCHANGED <<gpc, count>>
    /\ UNCHANGED <<orchVars, rmtVars, statVars>>

\* L151: Array.from({ length: count }, ...) has made count records and returns.
GenReturn ==
    /\ gpc = "start"
    /\ Len(records) = count
    /\ gpc' = "returned"
    /\ UNCHANGED <<count, clock, records>>
    /\ UNCHANGED <<orchVars, rmtVars, statVars>>

NextGen == GenRecord \/ GenReturn

SpecGen == InitGen /\ [][NextGen]_vars

-----------------------------------------------------------------------------
(* Properties of calculateStats and generateData *)

\* The ascending arrangement of vs, stated without the sorting code.
Occurrences(s, x) == Cardinality({k \in 1..Len(s) : s[k] = x})

AscendingOf(vs) ==
    CHOOSE s \in [1..Len(vs) -> {vs[k] : k \in 1..Len(vs)}] :
        /\ \A i, j \in 1..Len(vs) : i < j => s[i] <= s[j]
        /\ \A k \in 1..Len(vs) : Occurrences(s, vs[k]) = Occurrences(vs, vs[k])

RECURSIVE SumOfSquares(_)
SumOfSquares(vs) == IF vs = <<>> THEN 0 ELSE vs[1] * vs[1] + SumOfSquares(Tail(vs))

\* The population variance of vs: E[v^2] - E[v]^2.
PopulationVariance(vs) ==
    Rat(Len(vs) * SumOfSquares(vs) - Sum(vs) * Sum(vs), Len(vs) * Len(vs))

StatsOk(vs, st) ==
    LET n == Len(vs)
        asc == AscendingOf(vs)
    IN  /\ st.min = asc[1]
        /\ st.max = asc[n]
        /\ RatLeq(Rat(st.min, 1), st.median) /\ RatLeq(st.median, Rat(st.max, 1))
        /\ RatLeq(Rat(st.min, 1), st.mean) /\ RatLeq(st.mean, Rat(st.max, 1))
        /\ st.mean.den > 0
        /\ st.mean.num * n = Sum(vs) * st.mean.den
        /\ n % 2 = 1 => RatEq(st.median, Rat(asc[(n + 1) \div 2], 1))
        /\ n % 2 = 0 => RatEq(st.median, Rat(asc[n \div 2] + asc[n \div 2 + 1], 2))
        /\ st.stdDev.sqrtOf.den > 0
        /\ RatEq(st.stdDev.sqrtOf, PopulationVariance(vs))
        /\ n = 1 =>
               /\ RatEq(st.mean, Rat(vs[1], 1))
               /\ st.min = vs[1] /\ st.max = vs[1]
               /\ RatEq(st.median, Rat(vs[1], 1))
               /\ st.stdDev.sqrtOf.num = 0

\* What calculateStats returned describes the array it was given.
C8_StatsState == stats # <<>> => StatsOk(values, stats[1])

\* C8: for every non-empty sequence of non-negative integer samples,
\* calculateStats returns min and max equal to the smallest and largest
\* sample, min <= median <= max, min <= mean <= max with mean the sum over the
\* number of samples, median the middle element of the ascending sort (odd
\* length) or the average of the two middle elements (even length), stdDev
\* the square root of the population variance; for a single sample v it
\* returns mean = min = max = median = v and stdDev = 0; and the input
\* sequence is left unmodified.
C8_StatsOfSamples ==
    /\ []C8_StatsState
    /\ [][values' = values]_vars

C8_Witness ==
    /\ values = <<2, 0, 3, 1>>
    /\ stats # <<>>
    /\ stats[1].median = Rat(3, 2)
    /\ stats[1].mean = Rat(6, 4)
    /\ stats[1].min = 0 /\ stats[1].max = 3

\* C9: generateData(count) returns exactly `count` records, the record at
\* index i has sensor tag sensor(i mod 5), and the timestamps are pairwise
\* distinct and strictly decreasing as the index increases, however the wall
\* clock advances between the reads made for the records.
C9_DistinctDecreasingTimestamps ==
    gpc = "returned" =>
        /\ Len(records) = count
        /\ \A k \in 1..Len(records) :
               records[k].meta.sensor = <<"sensor", (k - 1) % 5>>
        /\ \A j, k \in 1..Len(records) :
               j < k => records[j].timestamp > records[k].timestamp

=============================================================================
